---- MODULE Spec2Model ----
(***************************************************************************)
(* A model of the rust-fuzzylogic Mamdani inference pipeline: membership   *)
(* functions, variables, antecedent evaluation, rule implication,          *)
(* aggregation, centroid defuzzification and the RuleSpace orchestrator.   *)
(*                                                                         *)
(* Float values are modelled exactly: a finite value is a reduced fraction *)
(* <<num, den>> with den > 0; <<0,0>> is NaN, <<1,0>> is +infinity and     *)
(* <<-1,0>> is -infinity, with the IEEE-754 results for the operations the *)
(* code uses.  Rounding error is not modelled.                             *)
(***************************************************************************)
EXTENDS Integers, Sequences, FiniteSets, TLC

VARIABLES
    vars,             \* RuleSpace.vars: name -> Variable
    rules,            \* RuleSpace.rules: sequence of Rule
    agg_memberships,  \* RuleSpace.agg_memberships: name -> sample vector
    call,             \* the call in progress / last made: its name and arguments
    ret,              \* the value the last call returned
    sampled,          \* the points at which the last implicate call evaluated terms
    pc                \* "ready" before a call is applied, "done" after

state == <<vars, rules, agg_memberships, call, ret, sampled, pc>>

(***************************************************************************)
(* Float (lib.rs: pub type Float = f64)                                    *)
(***************************************************************************)
Abs(x) == IF x < 0 THEN -x ELSE x

RECURSIVE GCD(_, _)
GCD(a, b) == IF b = 0 THEN a ELSE GCD(b, a % b)

\* The fraction n/d (d > 0) in lowest terms.
Frac(n, d) ==
    LET g == GCD(Abs(n), d)
    IN  <<n \div g, d \div g>>

FInt(k) == <<k, 1>>
NaN == <<0, 0>>
PInf == <<1, 0>>
NInf == <<-1, 0>>

is_nan(a) == a[2] = 0 /\ a[1] = 0
is_finite(a) == a[2] > 0
Sign(a) == IF a[1] > 0 THEN 1 ELSE IF a[1] < 0 THEN -1 ELSE 0
InfOf(s) == IF s > 0 THEN PInf ELSE NInf

FNeg(a) == <<-a[1], a[2]>>

FAdd(a, b) ==
    IF is_nan(a) \/ is_nan(b) THEN NaN
    ELSE IF ~is_finite(a) THEN (IF ~is_finite(b) /\ a # b THEN NaN ELSE a)
    ELSE IF ~is_finite(b) THEN b
    ELSE LET g == GCD(a[2], b[2])
             l == (a[2] \div g) * b[2]
         IN  Frac(a[1] * (l \div a[2]) + b[1] * (l \div b[2]), l)

FSub(a, b) == FAdd(a, FNeg(b))

FMul(a, b) ==
    IF is_nan(a) \/ is_nan(b) THEN NaN
    ELSE IF ~is_finite(a) \/ ~is_finite(b)
         THEN (IF Sign(a) * Sign(b) = 0 THEN NaN ELSE InfOf(Sign(a) * Sign(b)))
    ELSE LET g1 == GCD(Abs(a[1]), b[2])
             g2 == GCD(Abs(b[1]), a[2])
         IN  <<(a[1] \div g1) * (b[1] \div g2), (a[2] \div g2) * (b[2] \div g1)>>

FDiv(a, b) ==
    IF is_nan(a) \/ is_nan(b) THEN NaN
    ELSE IF ~is_finite(a) THEN (IF ~is_finite(b) THEN NaN
                                ELSE InfOf(Sign(a) * (IF Sign(b) < 0 THEN -1 ELSE 1)))
    ELSE IF ~is_finite(b) THEN FInt(0)
    ELSE IF b[1] = 0 THEN (IF a[1] = 0 THEN NaN ELSE InfOf(Sign(a)))
    ELSE FMul(a, IF b[1] > 0 THEN <<b[2], b[1]>> ELSE <<-b[2], -b[1]>>)

\* n1/d1 < n2/d2 for d1, d2 > 0, by integer parts and then the reciprocals of
\* the fractional parts, so that no product is formed.
RECURSIVE LtQ(_, _, _, _)
LtQ(n1, d1, n2, d2) ==
    LET q1 == n1 \div d1
        q2 == n2 \div d2
        r1 == n1 % d1
        r2 == n2 % d2
    IN  IF q1 # q2 THEN q1 < q2
        ELSE IF r2 = 0 THEN FALSE
        ELSE IF r1 = 0 THEN TRUE
        ELSE LtQ(d2, r2, d1, r1)

\* a < b, false when either is NaN.
FLt(a, b) ==
    IF is_nan(a) \/ is_nan(b) THEN FALSE
    ELSE IF ~is_finite(a) \/ ~is_finite(b)
         THEN (IF a = b THEN FALSE ELSE (a = NInf \/ b = PInf))
    ELSE LtQ(a[1], a[2], b[1], b[2])

FLe(a, b) == ~is_nan(a) /\ ~is_nan(b) /\ (a = b \/ FLt(a, b))
FGt(a, b) == FLt(b, a)
FGe(a, b) == FLe(b, a)

\* f64::min / f64::max: when one argument is NaN the other is returned.
FMin(a, b) == IF is_nan(a) THEN b ELSE IF is_nan(b) THEN a ELSE IF FLt(b, a) THEN b ELSE a
FMax(a, b) == IF is_nan(a) THEN b ELSE IF is_nan(b) THEN a ELSE IF FLt(a, b) THEN b ELSE a

FAbs(a) == <<Abs(a[1]), a[2]>>

\* f64::clamp(lo, hi): NaN stays NaN.
FClamp(a, lo, hi) == IF FLt(a, lo) THEN lo ELSE IF FGt(a, hi) THEN hi ELSE a

Zero == FInt(0)
One == FInt(1)
Half == <<1, 2>>

(***************************************************************************)
(* Errors (error.rs) and results                                           *)
(***************************************************************************)
FuzzyError(kind) == [kind |-> kind, space |-> "", key |-> ""]
BadArity == FuzzyError("BadArity")
EmptyInput == FuzzyError("EmptyInput")
TypeMismatch == FuzzyError("TypeMismatch")
OutOfBounds == FuzzyError("OutOfBounds")
NotFound(space, key) == [kind |-> "NotFound", space |-> space, key |-> key]
NoError == FuzzyError("")

Ok(v) == [ok |-> TRUE, val |-> v, err |-> NoError]
Err(e) == [ok |-> FALSE, val |-> <<>>, err |-> e]

\* The empty HashMap.
EmptyMap == [k \in {} |-> <<>>]
\* HashMap::insert: the value under an existing key is replaced.
Insert(m, k, v) == [x \in DOMAIN m \cup {k} |-> IF x = k THEN v ELSE m[x]]

(***************************************************************************)
(* Membership functions (membership/mod.rs, membership/triangular.rs,      *)
(* membership/trapezoidal.rs, membership/gaussian.rs)                      *)
(***************************************************************************)
validate_order(vals) ==
    IF \E i \in 1..(Len(vals) - 1) : FLe(vals[i + 1], vals[i])
    THEN Err(BadArity)
    ELSE Ok(<<>>)

slope(value, left, right, delta) ==
    FClamp(FAdd(FDiv(FMul(delta, FSub(value, left)), FSub(right, left)),
                FDiv(FAdd(FMul(FInt(-1), delta), One), FInt(2))),
           Zero, One)

\* The apex tolerance 1e-9 of Triangular::eval.
ApexTol == <<1, 1000000000>>

Triangular_new(l, c, r) ==
    IF ~validate_order(<<l, c, r>>).ok
    THEN Err(validate_order(<<l, c, r>>).err)
    ELSE Ok([kind |-> "Triangular", left |-> l, center |-> c, right |-> r])

Triangular_eval(self, x) ==
    IF FLe(x, self.left) THEN Zero
    ELSE IF FGe(x, self.right) THEN Zero
    ELSE IF FLt(FAbs(FSub(x, self.center)), ApexTol) THEN One
    ELSE IF FLt(x, self.center) THEN slope(x, self.left, self.center, One)
    ELSE slope(x, self.center, self.right, FInt(-1))

Trapezoidal_new(ll, lb, rb, rl) ==
    IF ~validate_order(<<ll, lb, rb, rl>>).ok
    THEN Err(validate_order(<<ll, lb, rb, rl>>).err)
    ELSE Ok([kind |-> "Trapezoidal", left_leg |-> ll, left_base |-> lb,
             right_base |-> rb, right_leg |-> rl])

\* (x - base).abs() < Float::EPSILON.  EPSILON is 2^-52, and a fraction of
\* this model has a denominator below 2^31: a difference that is not zero
\* is at least 2^-31 in size, so of the differences formed here only zero is
\* below EPSILON.  The band of width EPSILON around a base, in which the code
\* answers 1.0, holds no other point of the model.
abs_lt_EPSILON(d) == d = Zero

Trapezoidal_eval(self, x) ==
    IF FLe(x, self.left_leg) THEN Zero
    ELSE IF FGe(x, self.right_leg) THEN Zero
    ELSE IF \/ abs_lt_EPSILON(FSub(x, self.left_base))
            \/ abs_lt_EPSILON(FSub(x, self.right_base)) THEN One
    ELSE IF FLt(x, self.left_base)
         THEN slope(x, self.left_leg, self.left_base, One)
    ELSE IF FGt(x, self.left_base) /\ FLt(x, self.right_base) THEN One
    ELSE slope(x, self.right_base, self.right_leg, FInt(-1))

validate_positive(val) ==
    IF FLe(val, Zero) THEN Err(OutOfBounds) ELSE Ok(<<>>)

\* f64::exp, kept symbolic: the number e^q is held by its exponent q, so
\* that e^q is 1 exactly when q is zero and e^p = e^q exactly when p = q.
exp(q) == [exp |-> q]

\* Gaussian::new(sd, mean): the standard deviation is the first argument.
Gaussian_new(sd, mean) ==
    IF ~validate_positive(sd).ok
    THEN Err(validate_positive(sd).err)
    ELSE Ok([kind |-> "Gaussian", sd |-> sd, mean |-> mean,
             neg_two_sigma_sq |-> FMul(FInt(-2), FMul(sd, sd))])

Gaussian_eval(self, x) ==
    exp(FDiv(FMul(FSub(x, self.mean), FSub(x, self.mean)),
             self.neg_two_sigma_sq))

\* MembershipFn::eval, dispatched on the shape a Term boxes.
MembershipFn_eval(mf, x) ==
    CASE mf.kind = "Triangular" -> Triangular_eval(mf, x)
      [] mf.kind = "Trapezoidal" -> Trapezoidal_eval(mf, x)
      [] mf.kind = "Gaussian" -> Gaussian_eval(mf, x)

(***************************************************************************)
(* Term (term.rs) and Variable (variable.rs)                               *)
(***************************************************************************)
Term_new(name, m) == [name |-> name, mf |-> m]
Term_eval(self, x) == MembershipFn_eval(self.mf, x)

Variable_new(min, max) ==
    IF FGe(min, max)
    THEN Err(OutOfBounds)
    ELSE Ok([min |-> min, max |-> max, terms |-> EmptyMap])

Variable_domain(self) == <<self.min, self.max>>

Variable_get(self, name) == name \in DOMAIN self.terms

\* insert_term without the duplicate check: the new term replaces the old.
Variable_insert_term_overwrite(self, name, t) ==
    IF name = "" THEN Err(EmptyInput)
    ELSE Ok([self EXCEPT !.terms = Insert(self.terms, name, t)])

Variable_insert_term(self, name, t) ==
    IF name = "" THEN Err(EmptyInput)
    ELSE IF Variable_get(self, name) THEN Err(TypeMismatch)
    ELSE Ok([self EXCEPT !.terms = Insert(self.terms, name, t)])

\* eval that checks the domain before it resolves the term.
Variable_eval_domain_first(self, name, x) ==
    IF FLt(self.max, x) \/ FGt(self.min, x) THEN Err(OutOfBounds)
    ELSE IF name \notin DOMAIN self.terms THEN Err(TypeMismatch)
    ELSE Ok(Term_eval(self.terms[name], x))

\* eval that resolves name against the labels of the registered terms.
Variable_eval_by_label(self, name, x) ==
    IF ~\E k \in DOMAIN self.terms : self.terms[k].name = name
    THEN Err(TypeMismatch)
    ELSE IF FLt(self.max, x) \/ FGt(self.min, x) THEN Err(OutOfBounds)
    ELSE Ok(Term_eval(self.terms[CHOOSE k \in DOMAIN self.terms :
                                     self.terms[k].name = name], x))

Variable_eval(self, name, x) ==
    IF name \notin DOMAIN self.terms THEN Err(TypeMismatch)
    ELSE IF FLt(self.max, x) \/ FGt(self.min, x) THEN Err(OutOfBounds)
    ELSE Ok(Term_eval(self.terms[name], x))

(***************************************************************************)
(* Operator families (ops.rs)                                              *)
(***************************************************************************)
Ops == {"MinMax", "Product", "Lukasiewicz"}

Ops_t(self, a, b) ==
    CASE self = "MinMax" -> FMin(a, b)
      [] self = "Product" -> FMul(a, b)
      [] self = "Lukasiewicz" -> FMax(FSub(FAdd(a, b), One), Zero)

\* The s-norms with the Product family as the plain sum a + b.
Ops_s_plain_sum(self, a, b) ==
    CASE self = "MinMax" -> FMax(a, b)
      [] self = "Product" -> FAdd(a, b)
      [] self = "Lukasiewicz" -> FMin(FAdd(a, b), One)

Ops_s(self, a, b) ==
    CASE self = "MinMax" -> FMax(a, b)
      [] self = "Product" -> FSub(FAdd(a, b), FMul(a, b))
      [] self = "Lukasiewicz" -> FMin(FAdd(a, b), One)

Ops_c(self, a) == FSub(One, a)

(***************************************************************************)
(* Antecedent AST and its evaluation (rule.rs)                             *)
(***************************************************************************)
Atom(var, term) == [tag |-> "Atom", var |-> var, term |-> term]
And(a, b) == [tag |-> "And", a |-> a, b |-> b]
Or(a, b) == [tag |-> "Or", a |-> a, b |-> b]
Not(a) == [tag |-> "Not", a |-> a]

\* eval_atom that looks the input up before the variable.
eval_atom_input_first(ant, input, vs) ==
    IF ant.var \notin DOMAIN input
    THEN Err(NotFound("Input", ant.term))
    ELSE IF ant.var \notin DOMAIN vs
    THEN Err(NotFound("Var", ant.var))
    ELSE Variable_eval(vs[ant.var], ant.term, input[ant.var])

\* The Atom arm: the variable, then the input, then Variable::eval.
eval_atom(ant, input, vs) ==
    IF ant.var \notin DOMAIN vs
    THEN Err(NotFound("Var", ant.var))
    ELSE IF ant.var \notin DOMAIN input
    THEN Err(NotFound("Input", ant.term))
    ELSE Variable_eval(vs[ant.var], ant.term, input[ant.var])

\* eval_and with the product t-norm.
eval_and_product(a, b) == IF ~a.ok THEN a ELSE IF ~b.ok THEN b ELSE Ok(FMul(a.val, b.val))

\* The And, Or and Not arms, given the results of the operands: the `?` on
\* each operand returns its error, the left operand's first.
eval_and(a, b) == IF ~a.ok THEN a ELSE IF ~b.ok THEN b ELSE Ok(FMin(a.val, b.val))
\* The Or arm as the sum of the operands.
eval_or_sum(a, b) == IF ~a.ok THEN a ELSE IF ~b.ok THEN b ELSE Ok(FAdd(a.val, b.val))
eval_or(a, b) == IF ~a.ok THEN a ELSE IF ~b.ok THEN b ELSE Ok(FMax(a.val, b.val))
eval_not(a) == IF ~a.ok THEN a ELSE Ok(FSub(One, a.val))

RECURSIVE eval_antecedent(_, _, _)
eval_antecedent(ant, input, vs) ==
    CASE ant.tag = "Atom" -> eval_atom(ant, input, vs)
      [] ant.tag = "And" ->
            eval_and(eval_antecedent(ant.a, input, vs), eval_antecedent(ant.b, input, vs))
      [] ant.tag = "Or" ->
            eval_or(eval_antecedent(ant.a, input, vs), eval_antecedent(ant.b, input, vs))
      [] ant.tag = "Not" ->
            eval_not(eval_antecedent(ant.a, input, vs))

(***************************************************************************)
(* Rule: activation and implication (mamdani.rs)                           *)
(***************************************************************************)
Consequent(var, term) == [var |-> var, term |-> term]
Rule(antecedent, consequent) == [antecedent |-> antecedent, consequent |-> consequent]

activation(self, input, vs) == eval_antecedent(self.antecedent, input, vs)

\* The step implicate computes for a domain and a sampler of n points.
implicate_step(dom_min, dom_max, n) == FDiv(FSub(dom_max, dom_min), FInt(n))

\* The point x at which implicate evaluates sample k.
implicate_x(dom_min, dom_max, n, k) ==
    FAdd(dom_min, FMul(FInt(k), implicate_step(dom_min, dom_max, n)))

\* implicate_vec that takes the larger of alpha and the membership.
implicate_vec_max(c, alpha, vers, n) ==
    LET dom == Variable_domain(vers[c.var])
        ev == [k \in 0..(n - 1) |->
                 Variable_eval(vers[c.var], c.term, implicate_x(dom[1], dom[2], n, k))]
        bad == {k \in 0..(n - 1) : ~ev[k].ok}
    IN  IF bad # {}
        THEN Err(ev[CHOOSE k \in bad : \A j \in bad : k <= j].err)
        ELSE Ok([k \in 0..(n - 1) |-> FMax(ev[k].val, alpha)])

\* The inner loop of implicate for one consequent: the clipped samples, or
\* the error of the first sample whose evaluation fails.
implicate_vec(c, alpha, vers, n) ==
    LET dom == Variable_domain(vers[c.var])
        ev == [k \in 0..(n - 1) |->
                 Variable_eval(vers[c.var], c.term, implicate_x(dom[1], dom[2], n, k))]
        bad == {k \in 0..(n - 1) : ~ev[k].ok}
    IN  IF bad # {}
        THEN Err(ev[CHOOSE k \in bad : \A j \in bad : k <= j].err)
        ELSE Ok([k \in 0..(n - 1) |-> FMin(ev[k].val, alpha)])

\* The loop of implicate from consequent i on, result_map holding the
\* entries inserted so far.
RECURSIVE implicate_from(_, _, _, _, _, _)
implicate_from(self, i, result_map, alpha, vers, n) ==
    IF i > Len(self.consequent) THEN Ok(result_map)
    ELSE LET c == self.consequent[i]
         IN  IF c.var \notin DOMAIN vers
             THEN Err(NotFound("Var", c.term))
             ELSE LET v == implicate_vec(c, alpha, vers, n)
                  IN  IF ~v.ok THEN v
                      ELSE implicate_from(self, i + 1, Insert(result_map, c.var, v.val),
                                          alpha, vers, n)

implicate(self, alpha, vers, n) == implicate_from(self, 1, EmptyMap, alpha, vers, n)

\* The points implicate evaluated, per consequent it reached.
implicate_points(self, vers, n) ==
    [i \in {j \in 1..Len(self.consequent) :
              \A h \in 1..j : self.consequent[h].var \in DOMAIN vers} |->
        LET dom == Variable_domain(vers[self.consequent[i].var])
        IN  [k \in 0..(n - 1) |-> implicate_x(dom[1], dom[2], n, k)]]

(***************************************************************************)
(* Aggregation (aggregate.rs)                                              *)
(***************************************************************************)
\* elements_max that overwrites: *d = *s instead of the maximum.
elements_overwrite(data, src) ==
    [k \in DOMAIN data |-> IF k \in DOMAIN src THEN src[k] ELSE data[k]]

elements_max(data, src) ==
    [k \in DOMAIN data |-> IF k \in DOMAIN src THEN FMax(data[k], src[k]) ELSE data[k]]

\* for (k, v) in implicated: entry(k).and_modify(elements_max).or_insert(v)
merge_implicated(implicated_map, implicated) ==
    [k \in DOMAIN implicated_map \cup DOMAIN implicated |->
        IF k \notin DOMAIN implicated THEN implicated_map[k]
        ELSE IF k \in DOMAIN implicated_map
        THEN elements_max(implicated_map[k], implicated[k])
        ELSE implicated[k]]

RECURSIVE aggregation_from(_, _, _, _, _, _)
aggregation_from(rs, i, implicated_map, input, vs, n) ==
    IF i > Len(rs) THEN Ok(implicated_map)
    ELSE LET alpha == activation(rs[i], input, vs)
         IN  IF ~alpha.ok THEN alpha
             ELSE LET implicated == implicate(rs[i], alpha.val, vs, n)
                  IN  IF ~implicated.ok THEN implicated
                      ELSE aggregation_from(rs, i + 1,
                               merge_implicated(implicated_map, implicated.val),
                               input, vs, n)

aggregation(rs, input, vs, n) == aggregation_from(rs, 1, EmptyMap, input, vs, n)

(***************************************************************************)
(* Defuzzification (defuzz.rs)                                             *)
(***************************************************************************)
\* The inner loop of defuzzification over samples lo..hi-1: the two sums
\* <<sum of x * k, sum of k>> with x = var_min + step * l.  The loop adds the
\* terms one after the other; they are grouped in halves here, which gives
\* the same sums because addition in this model is exact.
RECURSIVE defuzz_sums(_, _, _, _, _)
defuzz_sums(j, var_min, step, lo, hi) ==
    IF hi <= lo THEN <<Zero, Zero>>
    ELSE IF hi = lo + 1
    THEN LET x == FAdd(var_min, FMul(step, FInt(lo)))
         IN  <<FAdd(Zero, FMul(x, j[lo])), FAdd(Zero, j[lo])>>
    ELSE LET mid == (lo + hi) \div 2
             a == defuzz_sums(j, var_min, step, lo, mid)
             b == defuzz_sums(j, var_min, step, mid, hi)
         IN  <<FAdd(a[1], b[1]), FAdd(a[2], b[2])>>

\* defuzz_one with the step of implicate: the divisor num instead of num - 1.
defuzz_one_step_n(j, var) ==
    LET num == Cardinality(DOMAIN j)
        dom == Variable_domain(var)
        step == FDiv(FSub(dom[2], dom[1]), FInt(num))
        sums == defuzz_sums(j, dom[1], step, 0, num)
    IN  FDiv(sums[1], sums[2])

\* defuzz_one that guards the division: 0 when the samples sum to zero.
defuzz_one_guarded(j, var) ==
    LET num == Cardinality(DOMAIN j)
        dom == Variable_domain(var)
        step == FDiv(FSub(dom[2], dom[1]), FSub(FInt(num), One))
        sums == defuzz_sums(j, dom[1], step, 0, num)
    IN  IF sums[2] = Zero THEN Zero ELSE FDiv(sums[1], sums[2])

defuzz_one(j, var) ==
    LET num == Cardinality(DOMAIN j)
        dom == Variable_domain(var)
        step == FDiv(FSub(dom[2], dom[1]), FSub(FInt(num), One))
        sums == defuzz_sums(j, dom[1], step, 0, num)
    IN  FDiv(sums[1], sums[2])

defuzzification(agg, vs) ==
    IF \E i \in DOMAIN agg : i \notin DOMAIN vs
    THEN Err(EmptyInput)
    ELSE Ok([i \in DOMAIN agg |-> defuzz_one(agg[i], vs[i])])

(***************************************************************************)
(* UniformSampler (sampler.rs)                                             *)
(***************************************************************************)
DEFAULT_N == 101

\* UniformSampler::new that rejects only a sampler without points.
UniformSampler_new_one(n) == IF n < 1 THEN Err(OutOfBounds) ELSE Ok(n)

UniformSampler_new(n) == IF n < 2 THEN Err(OutOfBounds) ELSE Ok(n)

\* sample with the step of Rule::implicate, (max - min) / n, and without the
\* assignment of max to the last point.
UniformSampler_sample_step_n(n, min, max) ==
    IF FGe(min, max) THEN Err(BadArity)
    ELSE IF ~(is_finite(min) /\ is_finite(max)) THEN Err(BadArity)
    ELSE Ok([i \in 0..(n - 1) |->
                FAdd(min, FMul(FInt(i), FDiv(FSub(max, min), FInt(n))))])

\* UniformSampler::sample of a sampler of n points: min + i * step pushed for
\* i in 0..n, then sample[n - 1] = max.
UniformSampler_sample(n, min, max) ==
    IF FGe(min, max) THEN Err(BadArity)
    ELSE IF ~(is_finite(min) /\ is_finite(max)) THEN Err(BadArity)
    ELSE LET step == FDiv(FSub(max, min), FSub(FInt(n), One))
         IN  Ok([i \in 0..(n - 1) |->
                    IF i = n - 1 THEN max ELSE FAdd(min, FMul(FInt(i), step))])

(***************************************************************************)
(* RuleSpace (rulespace.rs)                                                *)
(***************************************************************************)
\* RuleSpace::new that rejects only an empty variable map.
RuleSpace_new_rules_unchecked(vs, rs) ==
    IF DOMAIN vs = {}
    THEN Err(EmptyInput)
    ELSE Ok([vars |-> vs, agg_memberships |-> EmptyMap, rules |-> rs])

RuleSpace_new(vs, rs) ==
    IF DOMAIN vs = {} \/ Len(rs) = 0
    THEN Err(EmptyInput)
    ELSE Ok([vars |-> vs, agg_memberships |-> EmptyMap, rules |-> rs])

(***************************************************************************)
(* The variables, rules and inputs the model is explored over.  The        *)
(* variables are those of tests/mamdani_tests.rs, built with the           *)
(* constructors as the test builds them.                                   *)
(***************************************************************************)
Q(n, d) == Frac(n, d)
Tri(l, c, r) == Triangular_new(l, c, r).val

\* Variable::new(min, max) followed by insert_term for each <<key, term>>.
RECURSIVE WithTerms(_, _)
WithTerms(v, kts) ==
    IF kts = <<>> THEN v
    ELSE WithTerms(Variable_insert_term(v, kts[1][1], kts[1][2]).val, Tail(kts))

temp ==
    WithTerms(Variable_new(FInt(-10), FInt(10)).val,
        << <<"cold", Term_new("cold", Tri(FInt(-10), FInt(-5), FInt(0)))>>,
           <<"hot", Term_new("hot", Tri(FInt(0), FInt(5), FInt(10)))>> >>)

fanpspeed ==
    WithTerms(Variable_new(FInt(0), FInt(10)).val,
        << <<"High", Term_new("High", Tri(FInt(5), Q(15, 2), FInt(10)))>>,
           <<"Low", Term_new("hot", Tri(FInt(0), Q(5, 2), FInt(5)))>> >>)

pumpspeed ==
    WithTerms(Variable_new(FInt(0), FInt(100)).val,
        << <<"High", Term_new("High", Tri(FInt(80), FInt(90), FInt(100)))>>,
           <<"Low", Term_new("hot", Tri(FInt(0), FInt(10), FInt(20)))>> >>)

TestVars == [v \in {"temp", "fanpspeed", "pumpspeed"} |->
                CASE v = "temp" -> temp
                  [] v = "fanpspeed" -> fanpspeed
                  [] v = "pumpspeed" -> pumpspeed]

\* The antecedents and the two rules of the test.
HotNotCold == And(Atom("temp", "hot"), Not(Atom("temp", "cold")))
ColdNotHot == And(Atom("temp", "cold"), Not(Atom("temp", "hot")))
ColdOrHot == Or(Atom("temp", "cold"), Atom("temp", "hot"))

rule == Rule(HotNotCold, <<Consequent("fanpspeed", "High"), Consequent("pumpspeed", "High")>>)
rule_2 == Rule(ColdNotHot, <<Consequent("fanpspeed", "Low"), Consequent("pumpspeed", "Low")>>)

\* Further rules: a disjunction, one naming an output variable twice, one
\* without consequents, and ones that refer to what is not registered.
RuleOr == Rule(ColdOrHot, <<Consequent("fanpspeed", "High")>>)
RuleTwice == Rule(Atom("temp", "hot"),
                  <<Consequent("fanpspeed", "Low"), Consequent("fanpspeed", "High")>>)
RuleNoConsequent == Rule(Atom("temp", "hot"), <<>>)
RuleUnknownTerm == Rule(Atom("temp", "warm"), <<Consequent("fanpspeed", "High")>>)
RuleUnknownInputVar == Rule(Atom("humidity", "hot"), <<Consequent("fanpspeed", "Low")>>)
RuleUnknownOutputVar == Rule(Not(Atom("temp", "hot")), <<Consequent("valve", "High")>>)
RuleUnknownOutputTerm == Rule(Atom("temp", "cold"), <<Consequent("pumpspeed", "Huge")>>)

RuleUniverse ==
    { rule, rule_2, RuleOr, RuleTwice, RuleNoConsequent, RuleUnknownTerm,
      RuleUnknownInputVar, RuleUnknownOutputVar, RuleUnknownOutputTerm }

\* The rules a RuleSpace is explored with: one that aggregates, one whose
\* activation fails and one whose implication fails.
SpaceRuleUniverse == {rule, RuleUnknownTerm, RuleUnknownOutputVar}

\* The rules the pipeline is explored with: those that aggregate, and one
\* whose implication fails.
PipeRuleUniverse ==
    {rule, rule_2, RuleOr, RuleTwice, RuleNoConsequent, RuleUnknownOutputVar}

MaxRules == 2
MaxSpaceRules == 2
MaxN == 4
MaxSpaceN == 3

RECURSIVE SeqsUpTo(_, _)
SeqsUpTo(S, n) ==
    IF n = 0 THEN {<<>>}
    ELSE LET shorter == SeqsUpTo(S, n - 1)
         IN  shorter \cup {Append(q, x) : q \in {t \in shorter : Len(t) = n - 1}, x \in S}

RuleLists == SeqsUpTo(PipeRuleUniverse, MaxRules)
SpaceRuleLists == SeqsUpTo(SpaceRuleUniverse, MaxSpaceRules)

\* Crisp input maps: none, and temp at points inside and outside its domain.
InputOf(x) == [v \in {"temp"} |-> x]
Temps == {Q(-15, 2), FInt(-5), FInt(0), Q(5, 2), Q(15, 2), FInt(11)}
Inputs == {EmptyMap} \cup {InputOf(x) : x \in Temps}
PipeInputs == {EmptyMap} \cup {InputOf(x) : x \in {Q(-15, 2), FInt(0), Q(15, 2), FInt(11)}}
SpaceInputs == {EmptyMap, InputOf(Q(15, 2))}

\* Samplers as UniformSampler::new accepts them.
Samplers == {n \in 0..MaxN : UniformSampler_new(n).ok}
SpaceSamplers == {n \in (MaxSpaceN - 1)..MaxSpaceN : UniformSampler_new(n).ok}

(***************************************************************************)
(* Spec: the RuleSpace as a state machine, constructed by RuleSpace::new   *)
(* and then used by any sequence of add_rules, aggregate and defuzzify.    *)
(***************************************************************************)
Init ==
    /\ \E vs \in {EmptyMap, TestVars}, rs \in SpaceRuleLists :
          /\ call = [op |-> "new", vars |-> vs, rules |-> rs]
          /\ IF RuleSpace_new(vs, rs).ok
             THEN /\ vars = RuleSpace_new(vs, rs).val.vars
                  /\ rules = RuleSpace_new(vs, rs).val.rules
                  /\ agg_memberships = RuleSpace_new(vs, rs).val.agg_memberships
                  /\ ret = Ok(<<>>)
                  /\ pc = "space"
             ELSE /\ vars = EmptyMap
                  /\ rules = <<>>
                  /\ agg_memberships = EmptyMap
                  /\ ret = RuleSpace_new(vs, rs)
                  /\ pc = "failed"
    /\ sampled = <<>>

\* add_rules that replaces the rule list by the new rules.
add_rules_replace(more) ==
    /\ pc = "space"
    /\ Len(rules) + Len(more) <= MaxSpaceRules
    /\ call' = [op |-> "add_rules", more |-> more]
    /\ IF Len(more) = 0
       THEN /\ ret' = Err(EmptyInput)
            /\ rules' = rules
       ELSE /\ rules' = more
            /\ ret' = Ok(<<>>)
    /\ UNCHANGED <<vars, agg_memberships, sampled, pc>>

add_rules(more) ==
    /\ pc = "space"
    /\ Len(rules) + Len(more) <= MaxSpaceRules
    /\ call' = [op |-> "add_rules", more |-> more]
    /\ IF Len(more) = 0
       THEN /\ ret' = Err(EmptyInput)
            /\ rules' = rules
       ELSE /\ rules' = rules \o more
            /\ ret' = Ok(<<>>)
    /\ UNCHANGED <<vars, agg_memberships, sampled, pc>>

\* RuleSpace::aggregate that takes the stored map out before aggregating, so
\* that a failure leaves it empty.
RuleSpace_aggregate_take(input, n) ==
    /\ pc = "space"
    /\ call' = [op |-> "aggregate", input |-> input, n |-> n]
    /\ \E agg \in {aggregation(rules, input, vars, n)} :
          IF ~agg.ok
          THEN /\ ret' = agg
               /\ agg_memberships' = EmptyMap
          ELSE /\ agg_memberships' = agg.val
               /\ ret' = Ok(<<>>)
    /\ UNCHANGED <<vars, rules, sampled, pc>>

\* RuleSpace::aggregate that accumulates into the stored map, so that the
\* new samples are max-merged with those of the previous call.
RuleSpace_aggregate_merge(input, n) ==
    /\ pc = "space"
    /\ call' = [op |-> "aggregate", input |-> input, n |-> n]
    /\ \E agg \in {aggregation_from(rules, 1, agg_memberships, input, vars, n)} :
          IF ~agg.ok
          THEN /\ ret' = agg
               /\ agg_memberships' = agg_memberships
          ELSE /\ agg_memberships' = agg.val
               /\ ret' = Ok(<<>>)
    /\ UNCHANGED <<vars, rules, sampled, pc>>

\* let agg_memberships = aggregation(&self.rules, input, &self.vars, sampler)?;
\* self.agg_memberships = agg_memberships;
RuleSpace_aggregate(input, n) ==
    /\ pc = "space"
    /\ call' = [op |-> "aggregate", input |-> input, n |-> n]
    /\ \E agg \in {aggregation(rules, input, vars, n)} :
          IF ~agg.ok
          THEN /\ ret' = agg
               /\ agg_memberships' = agg_memberships
          ELSE /\ agg_memberships' = agg.val
               /\ ret' = Ok(<<>>)
    /\ UNCHANGED <<vars, rules, sampled, pc>>

\* RuleSpace::defuzzify that moves the rules out of the RuleSpace to
\* aggregate them, so that the call leaves the rule list empty.
RuleSpace_defuzzify_take_rules(input, n) ==
    /\ pc = "space"
    /\ call' = [op |-> "defuzzify", input |-> input, n |-> n]
    /\ \E agg \in {aggregation(rules, input, vars, n)} :
          IF ~agg.ok
          THEN /\ ret' = agg
               /\ agg_memberships' = agg_memberships
          ELSE /\ agg_memberships' = agg.val
               /\ ret' = defuzzification(agg.val, vars)
    /\ rules' = <<>>
    /\ UNCHANGED <<vars, sampled, pc>>

\* let _ = self.aggregate(input, sampler)?;
\* Ok(defuzzification(&self.agg_memberships, &self.vars)?)
RuleSpace_defuzzify(input, n) ==
    /\ pc = "space"
    /\ call' = [op |-> "defuzzify", input |-> input, n |-> n]
    /\ \E agg \in {aggregation(rules, input, vars, n)} :
          IF ~agg.ok
          THEN /\ ret' = agg
               /\ agg_memberships' = agg_memberships
          ELSE /\ agg_memberships' = agg.val
               /\ ret' = defuzzification(agg.val, vars)
    /\ UNCHANGED <<vars, rules, sampled, pc>>

Next ==
    \/ \E more \in SpaceRuleLists : add_rules(more)
    \/ \E input \in SpaceInputs, n \in SpaceSamplers : RuleSpace_aggregate(input, n)
    \/ \E input \in SpaceInputs, n \in SpaceSamplers : RuleSpace_defuzzify(input, n)

Spec == Init /\ [][Next]_state

(***************************************************************************)
(* SpecPipe: the pipeline of tests/mamdani_tests.rs as two calls, for      *)
(* every rule list, input and sampler of the universe and for the test's   *)
(* own rules with the default sampler:                                     *)
(*     let aggregate = aggregation(&rules, &inputs, &vars, &sampler);      *)
(*     let centroid = defuzzification(&aggregate, &vars);                  *)
(* rules holds the rule list passed, agg_memberships the aggregate.        *)
(***************************************************************************)
PipeCalls ==
    {<<rs, input, n>> : rs \in RuleLists, input \in PipeInputs, n \in Samplers}
    \cup {<<<<rule, rule_2>>, input, UniformSampler_new(DEFAULT_N).val>> :
             input \in {InputOf(Q(15, 2)), InputOf(Q(-15, 2)), InputOf(FInt(0))}}

InitPipe ==
    /\ \E c \in PipeCalls :
          /\ rules = c[1]
          /\ call = [op |-> "aggregation", input |-> c[2], n |-> c[3]]
    /\ vars = TestVars
    /\ agg_memberships = EmptyMap
    /\ ret = Ok(<<>>)
    /\ sampled = <<>>
    /\ pc = "ready"

CallAggregation ==
    /\ pc = "ready"
    /\ ret' = aggregation(rules, call.input, vars, call.n)
    /\ IF ret'.ok
       THEN agg_memberships' = ret'.val /\ pc' = "aggregated"
       ELSE agg_memberships' = agg_memberships /\ pc' = "done"
    /\ UNCHANGED <<vars, rules, call, sampled>>

CallDefuzzification ==
    /\ pc = "aggregated"
    /\ call' = [call EXCEPT !.op = "defuzzification"]
    /\ ret' = defuzzification(agg_memberships, vars)
    /\ pc' = "done"
    /\ UNCHANGED <<vars, rules, agg_memberships, sampled>>

NextPipe == CallAggregation \/ CallDefuzzification

SpecPipe == InitPipe /\ [][NextPipe]_state

(***************************************************************************)
(* SpecRule: single calls of eval_antecedent, Rule::implicate and          *)
(* defuzzification, for every argument of the universe.  family is the     *)
(* operator family the caller has chosen for the inference;                *)
(* eval_antecedent has no parameter that takes it.  defuzzification is     *)
(* public and is called here with maps that no aggregation over vars made. *)
(***************************************************************************)
Atoms ==
    {Atom(v, t) : v \in {"temp"}, t \in {"hot", "cold", "warm"}}
    \cup {Atom("humidity", "hot"), Atom("fanpspeed", "High")}

AntUniverse ==
    Atoms
    \cup {Not(a) : a \in Atoms}
    \cup {And(a, b) : a, b \in Atoms}
    \cup {Or(a, b) : a, b \in Atoms}
    \cup {HotNotCold, ColdNotHot, Not(Not(Atom("temp", "hot"))), Not(ColdOrHot)}

Alphas == {Zero, Half, Q(2, 3), One}

\* Aggregated maps handed to defuzzification: with keys that are variables
\* and keys that are not, and with vectors of three samples and of one.
AggVectors ==
    {[k \in 0..2 |-> Zero], [k \in 0..2 |-> Q(k, 2)], [k \in 0..0 |-> One]}
AggMaps ==
    {[key \in keys |-> v] :
        keys \in {{"fanpspeed"}, {"valve"}, {"fanpspeed", "valve"}, {"tank"}},
        v \in AggVectors}

\* Variable maps handed to defuzzification: the test's, and the test's with
\* a variable that Variable::new builds on the domain [0, +inf).
tank == Variable_new(Zero, PInf).val
DefuzzVars == {TestVars, Insert(TestVars, "tank", tank)}

RuleCalls ==
    {[op |-> "eval_antecedent", ant |-> a, input |-> i, family |-> f] :
        a \in AntUniverse, i \in Inputs, f \in Ops}
    \cup {[op |-> "implicate", rule |-> r, alpha |-> al, n |-> n] :
        r \in RuleUniverse, al \in Alphas, n \in Samplers}
    \cup {[op |-> "defuzzification", agg |-> m, vars |-> vs] :
        m \in AggMaps, vs \in DefuzzVars}

InitRule ==
    /\ call \in RuleCalls
    /\ vars = IF call.op = "defuzzification" THEN call.vars ELSE TestVars
    /\ rules = <<>>
    /\ agg_memberships = EmptyMap
    /\ ret = Ok(<<>>)
    /\ sampled = <<>>
    /\ pc = "ready"

CallEvalAntecedent ==
    /\ pc = "ready"
    /\ call.op = "eval_antecedent"
    /\ ret' = eval_antecedent(call.ant, call.input, vars)
    /\ pc' = "done"
    /\ UNCHANGED <<vars, rules, agg_memberships, call, sampled>>

CallImplicate ==
    /\ pc = "ready"
    /\ call.op = "implicate"
    /\ ret' = implicate(call.rule, call.alpha, vars, call.n)
    /\ sampled' = implicate_points(call.rule, vars, call.n)
    /\ pc' = "done"
    /\ UNCHANGED <<vars, rules, agg_memberships, call>>

CallDefuzzificationOf ==
    /\ pc = "ready"
    /\ call.op = "defuzzification"
    /\ ret' = defuzzification(call.agg, vars)
    /\ pc' = "done"
    /\ UNCHANGED <<vars, rules, agg_memberships, call, sampled>>

NextRule == CallEvalAntecedent \/ CallImplicate \/ CallDefuzzificationOf

SpecRule == InitRule /\ [][NextRule]_state

(***************************************************************************)
(* SpecVariable: one Variable, constructed by Variable::new from any pair  *)
(* of bounds and then used by any sequence of insert_term and eval.  The   *)
(* variable is kept under the key "self" of vars; a failed construction    *)
(* leaves no variable.  The terms are those of the tests of variable.rs.   *)
(***************************************************************************)
VarBounds == {NaN, NInf, PInf, FInt(0), FInt(1), FInt(2)}

t1 == Term_new("x", Tri(FInt(0), Half, FInt(1)))
t2 == Term_new("x", Tri(FInt(0), Q(1, 4), Half))

TermNames == {"", "x", "missing"}
EvalPoints == {Q(-1, 10), Zero, Q(3, 10), One, Q(11, 10), FInt(2), NaN}

InitVariable ==
    /\ \E min \in VarBounds, max \in VarBounds :
          /\ call = [op |-> "new", min |-> min, max |-> max]
          /\ ret = Variable_new(min, max)
          /\ vars = IF Variable_new(min, max).ok
                    THEN [self |-> Variable_new(min, max).val]
                    ELSE EmptyMap
    /\ rules = <<>>
    /\ agg_memberships = EmptyMap
    /\ sampled = <<>>
    /\ pc = "variable"

insert_term(name, t) ==
    /\ pc = "variable"
    /\ "self" \in DOMAIN vars
    /\ call' = [op |-> "insert_term", name |-> name, t |-> t]
    /\ \E r \in {Variable_insert_term(vars["self"], name, t)} :
          IF r.ok
          THEN /\ vars' = [self |-> r.val]
               /\ ret' = Ok(<<>>)
          ELSE /\ vars' = vars
               /\ ret' = r
    /\ UNCHANGED <<rules, agg_memberships, sampled, pc>>

eval(name, x) ==
    /\ pc = "variable"
    /\ "self" \in DOMAIN vars
    /\ call' = [op |-> "eval", name |-> name, x |-> x]
    /\ ret' = Variable_eval(vars["self"], name, x)
    /\ UNCHANGED <<vars, rules, agg_memberships, sampled, pc>>

NextVariable ==
    \/ \E name \in TermNames, t \in {t1, t2} : insert_term(name, t)
    \/ \E name \in TermNames, x \in EvalPoints : eval(name, x)

SpecVariable == InitVariable /\ [][NextVariable]_state

(***************************************************************************)
(* SpecCalls: single calls of the operator families of ops.rs and of       *)
(* UniformSampler::new and ::sample.  For the operators ret is the degree   *)
(* returned.                                                               *)
(***************************************************************************)
Degrees == {Zero, Q(1, 4), Q(1, 3), Half, Q(2, 3), Q(3, 4), One}

\* Domains handed to sample: those of the sampler's tests, and pairs that
\* are not ordered or not finite.
SampleDomains ==
    { <<Q(-7, 2), Q(9, 2)>>, <<FInt(-5), FInt(5)>>, <<FInt(0), FInt(10)>>,
      <<FInt(0), Q(1, 3)>>, <<FInt(1), FInt(1)>>, <<FInt(5), FInt(-5)>>,
      <<NaN, FInt(1)>>, <<FInt(0), PInf>>, <<NInf, FInt(0)>> }

OpsCalls ==
    {[op |-> o, family |-> f, a |-> a, b |-> b] :
        o \in {"t", "s"}, f \in Ops, a \in Degrees, b \in Degrees}
    \cup {[op |-> "c", family |-> f, a |-> a] : f \in Ops, a \in Degrees}
    \cup {[op |-> "sample", n |-> n, min |-> d[1], max |-> d[2]] :
        n \in Samplers \cup {UniformSampler_new(DEFAULT_N).val}, d \in SampleDomains}
    \cup {[op |-> "new", n |-> n] : n \in 0..MaxN}

InitCalls ==
    /\ call \in OpsCalls
    /\ vars = EmptyMap
    /\ rules = <<>>
    /\ agg_memberships = EmptyMap
    /\ ret = Ok(<<>>)
    /\ sampled = <<>>
    /\ pc = "ready"

CallT ==
    /\ pc = "ready"
    /\ call.op = "t"
    /\ ret' = Ops_t(call.family, call.a, call.b)
    /\ pc' = "done"
    /\ UNCHANGED <<vars, rules, agg_memberships, call, sampled>>

CallS ==
    /\ pc = "ready"
    /\ call.op = "s"
    /\ ret' = Ops_s(call.family, call.a, call.b)
    /\ pc' = "done"
    /\ UNCHANGED <<vars, rules, agg_memberships, call, sampled>>

CallC ==
    /\ pc = "ready"
    /\ call.op = "c"
    /\ ret' = Ops_c(call.family, call.a)
    /\ pc' = "done"
    /\ UNCHANGED <<vars, rules, agg_memberships, call, sampled>>

CallSample ==
    /\ pc = "ready"
    /\ call.op = "sample"
    /\ ret' = UniformSampler_sample(call.n, call.min, call.max)
    /\ pc' = "done"
    /\ UNCHANGED <<vars, rules, agg_memberships, call, sampled>>

CallNew ==
    /\ pc = "ready"
    /\ call.op = "new"
    /\ ret' = UniformSampler_new(call.n)
    /\ pc' = "done"
    /\ UNCHANGED <<vars, rules, agg_memberships, call, sampled>>

NextCalls == CallT \/ CallS \/ CallC \/ CallSample \/ CallNew

SpecCalls == InitCalls /\ [][NextCalls]_state

(***************************************************************************)
(* SpecShape: one shape is built by its constructor from call.args, given  *)
(* in the order of the constructor's parameters, and then evaluated at     *)
(* call.x.  The shape built is kept in vars.self; ret is the constructor's *)
(* Result and then the degree returned by eval.                            *)
(***************************************************************************)
ShapeValues == {NaN, FInt(-1), Zero, One, FInt(2)}

\* The shapes of the membership tests and of the listed scenarios, and
\* every tuple over ShapeValues.
TriangularArgs ==
    {<<l, c, r>> : l \in ShapeValues, c \in ShapeValues, r \in ShapeValues}
    \cup { <<FInt(0), FInt(5), FInt(10)>>, <<FInt(3), FInt(2), FInt(1)>>,
           <<FInt(0), FInt(0), FInt(-1)>>, <<NInf, Zero, PInf>> }

TrapezoidalArgs ==
    {<<ll, lb, rb, rl>> : ll \in ShapeValues, lb \in ShapeValues,
                          rb \in ShapeValues, rl \in ShapeValues}
    \cup { <<FInt(0), FInt(0), FInt(-1), FInt(0)>>, <<NInf, Zero, One, PInf>> }

GaussianArgs ==
    {<<a, b>> : a \in ShapeValues \cup {NInf, PInf},
                b \in ShapeValues \cup {NInf, PInf}}

ShapePoints ==
    { NaN, NInf, PInf, FInt(-1), Q(-1, 2), Zero, Half, One, Q(3, 2), FInt(2),
      Q(5, 2), FInt(5), Q(15, 2), FInt(10) }

\* Points closer than the apex tolerance to the center of Triangular(-1, 0, 1).
ApexPoints == { <<-1, 2000000000>>, <<1, 2000000000>> }

ShapeCalls ==
    {[op |-> "Triangular", args |-> a, x |-> x] :
        a \in TriangularArgs, x \in ShapePoints}
    \cup {[op |-> "Triangular", args |-> <<FInt(-1), Zero, One>>, x |-> x] :
        x \in ApexPoints}
    \cup {[op |-> "Trapezoidal", args |-> a, x |-> x] :
        a \in TrapezoidalArgs, x \in ShapePoints}
    \cup {[op |-> "Gaussian", args |-> a, x |-> x] :
        a \in GaussianArgs, x \in ShapePoints}

InitShape ==
    /\ call \in ShapeCalls
    /\ vars = EmptyMap
    /\ rules = <<>>
    /\ agg_memberships = EmptyMap
    /\ ret = Ok(<<>>)
    /\ sampled = <<>>
    /\ pc = "ready"

\* The shape a constructor returned, kept by the caller.
Built(r) == IF r.ok THEN [self |-> r.val] ELSE EmptyMap

CallTriangularNew ==
    /\ pc = "ready"
    /\ call.op = "Triangular"
    /\ ret' = Triangular_new(call.args[1], call.args[2], call.args[3])
    /\ vars' = Built(ret')
    /\ pc' = "built"
    /\ UNCHANGED <<rules, agg_memberships, call, sampled>>

CallTrapezoidalNew ==
    /\ pc = "ready"
    /\ call.op = "Trapezoidal"
    /\ ret' = Trapezoidal_new(call.args[1], call.args[2], call.args[3],
                              call.args[4])
    /\ vars' = Built(ret')
    /\ pc' = "built"
    /\ UNCHANGED <<rules, agg_memberships, call, sampled>>

CallGaussianNew ==
    /\ pc = "ready"
    /\ call.op = "Gaussian"
    /\ ret' = Gaussian_new(call.args[1], call.args[2])
    /\ vars' = Built(ret')
    /\ pc' = "built"
    /\ UNCHANGED <<rules, agg_memberships, call, sampled>>

CallShapeEval ==
    /\ pc = "built"
    /\ ret.ok
    /\ ret' = MembershipFn_eval(vars.self, call.x)
    /\ pc' = "done"
    /\ UNCHANGED <<vars, rules, agg_memberships, call, sampled>>

NextShape ==
    CallTriangularNew \/ CallTrapezoidalNew \/ CallGaussianNew \/ CallShapeEval

SpecShape == InitShape /\ [][NextShape]_state

(***************************************************************************)
(* Properties                                                              *)
(***************************************************************************)
\* The permutations of a sequence.
PermsOf(s) ==
    {[i \in 1..Len(s) |-> s[p[i]]] :
        p \in {f \in [1..Len(s) -> 1..Len(s)] : \A i, j \in 1..Len(s) : f[i] = f[j] => i = j}}

\* The sum of the values of a vector over the indices lo..hi-1.
RECURSIVE SumVec(_, _, _)
SumVec(f, lo, hi) ==
    IF hi <= lo THEN Zero
    ELSE IF hi = lo + 1 THEN f[lo]
    ELSE FAdd(SumVec(f, lo, (lo + hi) \div 2), SumVec(f, (lo + hi) \div 2, hi))

Total(f) == SumVec(f, 0, Cardinality(DOMAIN f))

\* The inclusive grid: point i of n on [lo, hi].
GridPoint(lo, hi, n, i) == FAdd(lo, FMul(FInt(i), FDiv(FSub(hi, lo), FInt(n - 1))))

\* The centroid of the samples mu over the inclusive grid of the domain of v.
Centroid(mu, v) ==
    LET n == Cardinality(DOMAIN mu)
    IN  FDiv(Total([i \in DOMAIN mu |-> FMul(GridPoint(v.min, v.max, n, i), mu[i])]),
             Total(mu))

Aggregated == pc = "aggregated"
Defuzzified == pc = "done" /\ call.op = "defuzzification"

\* C1: rule-order invariance.  For every permutation of the rule list on
\* which aggregation succeeds, aggregation returns the map it returned for
\* the list as given (same keys, same samples), and defuzzification of it
\* returns what it returned for the list as given.
C1_RuleOrderInvariance ==
    /\ Aggregated =>
          \A p \in PermsOf(rules) :
             aggregation(p, call.input, vars, call.n).ok =>
                aggregation(p, call.input, vars, call.n).val = agg_memberships
    /\ Defuzzified =>
          \A p \in PermsOf(rules) :
             aggregation(p, call.input, vars, call.n).ok =>
                defuzzification(aggregation(p, call.input, vars, call.n).val, vars) = ret

\* Two different rules were aggregated and the aggregate of fanpspeed is the
\* implicated vector of neither: both rules contributed to it.
C1_Witness ==
    /\ Defuzzified
    /\ Len(rules) = 2
    /\ rules[1] # rules[2]
    /\ "fanpspeed" \in DOMAIN agg_memberships
    /\ \A i \in 1..2 :
          agg_memberships["fanpspeed"] #
             implicate(rules[i], activation(rules[i], call.input, vars).val,
                       vars, call.n).val["fanpspeed"]

\* C3: defuzzification returns a map with exactly the keys of the aggregated
\* map, and for every key whose samples do not sum to zero the centroid
\* (sum of x_i * mu_i) / (sum of mu_i) over x_i = var_min + i * step with
\* step = (var_max - var_min) / (n - 1).
C3_Centroid ==
    Defuzzified =>
       /\ ret.ok
       /\ DOMAIN ret.val = DOMAIN agg_memberships
       /\ \A key \in DOMAIN agg_memberships :
             Total(agg_memberships[key]) # Zero =>
                ret.val[key] = Centroid(agg_memberships[key], vars[key])

\* Two output variables were defuzzified, one of them from samples of
\* different heights with a centroid strictly inside its domain.
C3_Witness ==
    /\ Defuzzified
    /\ Cardinality(DOMAIN agg_memberships) = 2
    /\ \E key \in DOMAIN agg_memberships :
          /\ Total(agg_memberships[key]) # Zero
          /\ \E k \in DOMAIN agg_memberships[key] :
                agg_memberships[key][k] \notin {Zero, One}
          /\ FLt(vars[key].min, ret.val[key])
          /\ FLt(ret.val[key], vars[key].max)

\* C4: when the aggregated samples of an output variable sum to zero,
\* defuzzification returns Ok with NaN for that variable; when every rule
\* has activation 0, every aggregated sample is 0.
C4_ZeroMassIsNaN ==
    /\ Defuzzified =>
          \A key \in DOMAIN agg_memberships :
             Total(agg_memberships[key]) = Zero =>
                ret.ok /\ key \in DOMAIN ret.val /\ is_nan(ret.val[key])
    /\ Aggregated \/ Defuzzified =>
          ((\A i \in 1..Len(rules) : activation(rules[i], call.input, vars).val = Zero)
              => \A key \in DOMAIN agg_memberships :
                    \A k \in DOMAIN agg_memberships[key] :
                       agg_memberships[key][k] = Zero)

\* The test's two rules at temp = 0: both activations are 0 and both outputs
\* were defuzzified from all-zero samples.
C4_Witness ==
    /\ Defuzzified
    /\ rules = <<rule, rule_2>>
    /\ call.input = InputOf(Zero)
    /\ DOMAIN agg_memberships = {"fanpspeed", "pumpspeed"}
    /\ \A key \in DOMAIN agg_memberships : Total(agg_memberships[key]) = Zero
    /\ ret.ok

\* C6: scenario S5.  With the test's variables and two rules and a sampler
\* of 101 points: at temp = 7.5 the fan speed (which the test spells
\* "fanpspeed") is in [6.5, 8.5] and pumpspeed in [70, 95]; at temp = -7.5
\* the fan speed is below 5 and pumpspeed below 50.
C6_ScenarioS5 ==
    Defuzzified /\ rules = <<rule, rule_2>> /\ call.n = DEFAULT_N =>
       /\ call.input = InputOf(Q(15, 2)) =>
             /\ ret.ok
             /\ FLe(Q(13, 2), ret.val["fanpspeed"]) /\ FLe(ret.val["fanpspeed"], Q(17, 2))
             /\ FLe(FInt(70), ret.val["pumpspeed"]) /\ FLe(ret.val["pumpspeed"], FInt(95))
       /\ call.input = InputOf(Q(-15, 2)) =>
             /\ ret.ok
             /\ FLt(ret.val["fanpspeed"], FInt(5))
             /\ FLt(ret.val["pumpspeed"], FInt(50))

\* The scenario was run at temp = 7.5 with 101 samples and returned values.
C6_Witness ==
    /\ Defuzzified
    /\ rules = <<rule, rule_2>>
    /\ call.n = DEFAULT_N
    /\ call.input = InputOf(Q(15, 2))
    /\ ret.ok
    /\ DOMAIN ret.val = {"fanpspeed", "pumpspeed"}

\* The first rule of rs whose activation or implication fails (0 if none),
\* and the error it fails with.
FailsAt(rs, i, input, vs, n) ==
    \/ ~activation(rs[i], input, vs).ok
    \/ ~implicate(rs[i], activation(rs[i], input, vs).val, vs, n).ok

FirstFailing(rs, input, vs, n) ==
    IF \E i \in 1..Len(rs) : FailsAt(rs, i, input, vs, n)
    THEN CHOOSE i \in 1..Len(rs) :
            /\ FailsAt(rs, i, input, vs, n)
            /\ \A h \in 1..(i - 1) : ~FailsAt(rs, h, input, vs, n)
    ELSE 0

ErrorOf(r, input, vs, n) ==
    IF ~activation(r, input, vs).ok
    THEN activation(r, input, vs).err
    ELSE implicate(r, activation(r, input, vs).val, vs, n).err

\* C5: aggregation is all-or-nothing.  When activation or implication of
\* some rule fails during RuleSpace.aggregate or RuleSpace.defuzzify, the
\* call returns that rule's error and the stored aggregation is what it was
\* before the call.
C5_AllOrNothing ==
    [][(/\ call'.op \in {"aggregate", "defuzzify"}
        /\ FirstFailing(rules, call'.input, vars, call'.n) # 0)
          => /\ ~ret'.ok
             /\ ret'.err = ErrorOf(rules[FirstFailing(rules, call'.input, vars, call'.n)],
                                   call'.input, vars, call'.n)
             /\ agg_memberships' = agg_memberships]_state

\* A call failed at the second rule, after a first rule that aggregates,
\* with a map stored by an earlier call still in place.
C5_Witness ==
    /\ call.op \in {"aggregate", "defuzzify"}
    /\ ~ret.ok
    /\ Len(rules) = 2
    /\ FirstFailing(rules, call.input, vars, call.n) = 2
    /\ DOMAIN implicate(rules[1], activation(rules[1], call.input, vars).val,
                        vars, call.n).val # {}
    /\ DOMAIN agg_memberships # {}

ImplicateDone == pc = "done" /\ call.op = "implicate"
AntecedentDone == pc = "done" /\ call.op = "eval_antecedent"

\* C2: Rule.implicate evaluates every consequent term on the inclusive grid
\* x_i = dom_min + i * (dom_max - dom_min) / (n - 1), so that sample n - 1 is
\* taken at dom_max: the grid of defuzzification.
C2_InclusiveGrid ==
    ImplicateDone =>
       \A i \in DOMAIN sampled :
          /\ \A k \in 0..(call.n - 1) :
                sampled[i][k] = GridPoint(vars[call.rule.consequent[i].var].min,
                                          vars[call.rule.consequent[i].var].max,
                                          call.n, k)
          /\ sampled[i][call.n - 1] = vars[call.rule.consequent[i].var].max

\* C7: for every consequent (var, term) of the rule, implicate returns under
\* var a vector of length n whose entry i is min(alpha, term.eval(x_i)) for
\* the i-th point x_i sampled for that consequent, each entry in [0, alpha].
C7_ClipEveryConsequent ==
    ImplicateDone /\ ret.ok =>
       \A i \in 1..Len(call.rule.consequent) :
          /\ call.rule.consequent[i].var \in DOMAIN ret.val
          /\ DOMAIN ret.val[call.rule.consequent[i].var] = 0..(call.n - 1)
          /\ \A k \in 0..(call.n - 1) :
                /\ ret.val[call.rule.consequent[i].var][k] =
                      FMin(call.alpha,
                           Term_eval(vars[call.rule.consequent[i].var]
                                        .terms[call.rule.consequent[i].term],
                                     sampled[i][k]))
                /\ FLe(Zero, ret.val[call.rule.consequent[i].var][k])
                /\ FLe(ret.val[call.rule.consequent[i].var][k], call.alpha)

\* The antecedent evaluated with the t-norm, s-norm and complement of a family.
RECURSIVE EvalUnder(_, _, _, _)
EvalUnder(family, ant, input, vs) ==
    CASE ant.tag = "Atom" -> eval_atom(ant, input, vs)
      [] ant.tag \in {"And", "Or"} ->
            LET a == EvalUnder(family, ant.a, input, vs)
                b == EvalUnder(family, ant.b, input, vs)
            IN  IF ~a.ok THEN a
                ELSE IF ~b.ok THEN b
                ELSE IF ant.tag = "And" THEN Ok(Ops_t(family, a.val, b.val))
                ELSE Ok(Ops_s(family, a.val, b.val))
      [] ant.tag = "Not" ->
            LET a == EvalUnder(family, ant.a, input, vs)
            IN  IF ~a.ok THEN a ELSE Ok(Ops_c(family, a.val))

\* C8: the antecedent is evaluated under the operator family the caller
\* selected: And is T, Or is S and Not is C of that family.
C8_FamilySelected ==
    AntecedentDone => ret = EvalUnder(call.family, call.ant, call.input, vars)

\* C9: under Min-Max, And is the minimum, Or the maximum and Not the
\* complement to 1 of the operands' values; (hot AND NOT cold) at temp = 7.5
\* is 0.5 and (cold OR hot) at temp = -5 is 1.
C9_MinMaxAntecedent ==
    AntecedentDone =>
       /\ (/\ call.ant.tag \in {"And", "Or"}
           /\ eval_antecedent(call.ant.a, call.input, vars).ok
           /\ eval_antecedent(call.ant.b, call.input, vars).ok)
             => /\ ret.ok
                /\ LET l == eval_antecedent(call.ant.a, call.input, vars).val
                       r == eval_antecedent(call.ant.b, call.input, vars).val
                   IN  IF call.ant.tag = "And"
                       THEN ret.val = (IF FLt(r, l) THEN r ELSE l)
                       ELSE ret.val = (IF FLt(l, r) THEN r ELSE l)
       /\ (call.ant.tag = "Not" /\ eval_antecedent(call.ant.a, call.input, vars).ok)
             => /\ ret.ok
                /\ FAdd(ret.val, eval_antecedent(call.ant.a, call.input, vars).val) = One
       /\ (call.ant = HotNotCold /\ call.input = InputOf(Q(15, 2))) => ret = Ok(Half)
       /\ (call.ant = ColdOrHot /\ call.input = InputOf(FInt(-5))) => ret = Ok(One)

\* (hot AND NOT cold) was evaluated at temp = 7.5, where hot is 0.5 and
\* cold is 0.
C9_Witness ==
    /\ AntecedentDone
    /\ call.ant = HotNotCold
    /\ call.input = InputOf(Q(15, 2))
    /\ eval_antecedent(Atom("temp", "hot"), call.input, vars) = Ok(Half)
    /\ ret.ok

\* C10: an Atom fails with the unknown-variable error when its variable is
\* not in the variable map, otherwise with the missing-input error when the
\* variable is not in the input map, and otherwise returns what
\* Variable.eval(term, input[var]) returns, its error included.
C10_AtomLookup ==
    AntecedentDone /\ call.ant.tag = "Atom" =>
       IF call.ant.var \notin DOMAIN vars
       THEN ~ret.ok /\ ret.err.kind = "NotFound" /\ ret.err.space = "Var"
       ELSE IF call.ant.var \notin DOMAIN call.input
       THEN ~ret.ok /\ ret.err.kind = "NotFound" /\ ret.err.space = "Input"
       ELSE ret = Variable_eval(vars[call.ant.var], call.ant.term, call.input[call.ant.var])

\* An atom whose variable is in neither map was evaluated.
C10_Witness ==
    /\ AntecedentDone
    /\ call.ant.tag = "Atom"
    /\ call.ant.var \notin DOMAIN vars
    /\ call.ant.var \notin DOMAIN call.input
    /\ ~ret.ok

VariableOf(vs) == vs["self"]
EvalDone == pc = "variable" /\ call.op = "eval"

\* C11: Variable.eval(name, x) fails with the unknown-term error when name
\* is not registered, whatever x is; otherwise fails with OutOfBounds when
\* x < min or x > max; otherwise returns the registered term's membership at
\* x, so that x = min and x = max are accepted.
C11_VariableEval ==
    EvalDone =>
       /\ IF call.name \notin DOMAIN VariableOf(vars).terms
          THEN ~ret.ok /\ ret.err = TypeMismatch
          ELSE IF FLt(call.x, VariableOf(vars).min) \/ FLt(VariableOf(vars).max, call.x)
          THEN ~ret.ok /\ ret.err = OutOfBounds
          ELSE ret.ok /\ ret.val = Term_eval(VariableOf(vars).terms[call.name], call.x)
       /\ (/\ call.name \in DOMAIN VariableOf(vars).terms
           /\ call.x \in {VariableOf(vars).min, VariableOf(vars).max}) => ret.ok

\* An unregistered term was evaluated at a point above the domain of a
\* variable that has a registered term.
C11_Witness ==
    /\ EvalDone
    /\ DOMAIN VariableOf(vars).terms # {}
    /\ call.name \notin DOMAIN VariableOf(vars).terms
    /\ FLt(VariableOf(vars).max, call.x)
    /\ ~ret.ok

\* C12: insert_term fails with EmptyInput for an empty name and with the
\* duplicate-term error for a registered name, and then the variable is
\* unchanged and eval of the name gives what it gave before; on success the
\* term map gains exactly the entry name -> term.
C12_InsertTerm ==
    [][call'.op = "insert_term" =>
          IF call'.name = ""
          THEN ~ret'.ok /\ ret'.err = EmptyInput /\ vars' = vars
          ELSE IF call'.name \in DOMAIN VariableOf(vars).terms
          THEN /\ ~ret'.ok /\ ret'.err = TypeMismatch
               /\ vars' = vars
               /\ \A x \in EvalPoints :
                     Variable_eval(VariableOf(vars'), call'.name, x)
                        = Variable_eval(VariableOf(vars), call'.name, x)
          ELSE /\ ret'.ok
               /\ DOMAIN VariableOf(vars').terms
                     = DOMAIN VariableOf(vars).terms \cup {call'.name}
               /\ VariableOf(vars').terms[call'.name] = call'.t
               /\ \A k \in DOMAIN VariableOf(vars).terms :
                     VariableOf(vars').terms[k] = VariableOf(vars).terms[k]
               /\ VariableOf(vars').min = VariableOf(vars).min
               /\ VariableOf(vars').max = VariableOf(vars).max]_state

\* A second, different term was offered under a registered name and was
\* rejected.
C12_Witness ==
    /\ pc = "variable"
    /\ call.op = "insert_term"
    /\ call.name \in DOMAIN VariableOf(vars).terms
    /\ call.t # VariableOf(vars).terms[call.name]
    /\ ~ret.ok

\* C13: Variable::new(min, max) fails when min >= max or a bound is NaN or
\* infinite, and otherwise returns a variable without terms whose domain is
\* (min, max).
C13_NewRejectsInvalidDomain ==
    pc = "variable" /\ call.op = "new" =>
       IF FGe(call.min, call.max) \/ ~is_finite(call.min) \/ ~is_finite(call.max)
       THEN ~ret.ok
       ELSE /\ ret.ok
            /\ DOMAIN ret.val.terms = {}
            /\ Variable_domain(ret.val) = <<call.min, call.max>>

\* C14: RuleSpace::new fails with EmptyInput when vars or rules is empty and
\* otherwise holds the given vars and rules and an empty aggregation; every
\* constructed RuleSpace has a variable and a rule, after any calls.
C14_RuleSpaceNew ==
    /\ call.op = "new" /\ pc \in {"space", "failed"} =>
          IF DOMAIN call.vars = {} \/ Len(call.rules) = 0
          THEN pc = "failed" /\ ~ret.ok /\ ret.err = EmptyInput
          ELSE /\ pc = "space" /\ ret.ok
               /\ vars = call.vars
               /\ rules = call.rules
               /\ DOMAIN agg_memberships = {}
    /\ pc = "space" => DOMAIN vars # {} /\ Len(rules) >= 1

\* A constructed RuleSpace after an aggregation and a later add_rules.
C14_Witness ==
    /\ pc = "space"
    /\ call.op = "add_rules"
    /\ ret.ok
    /\ DOMAIN agg_memberships # {}
    /\ Len(rules) >= 2

C16_NoEmptyConsequent ==
    ImplicateDone => Len(call.rule.consequent) >= 1

\* The first consequent of r that implicate cannot resolve, or 0.
FirstUnresolved(r, vs) ==
    IF \E i \in 1..Len(r.consequent) :
          \/ r.consequent[i].var \notin DOMAIN vs
          \/ r.consequent[i].term \notin DOMAIN vs[r.consequent[i].var].terms
    THEN CHOOSE i \in 1..Len(r.consequent) :
            /\ \/ r.consequent[i].var \notin DOMAIN vs
               \/ r.consequent[i].term \notin DOMAIN vs[r.consequent[i].var].terms
            /\ \A h \in 1..(i - 1) :
                  /\ r.consequent[h].var \in DOMAIN vs
                  /\ r.consequent[h].term \in DOMAIN vs[r.consequent[h].var].terms
    ELSE 0

\* C17: a reference to an unregistered variable is reported as the
\* unknown-variable error: by Rule.implicate when a consequent's var is not
\* in vars, and by defuzzification when a key of the aggregated map is not
\* in vars.
C17_UnknownVariableKind ==
    /\ (/\ ImplicateDone
        /\ FirstUnresolved(call.rule, vars) # 0
        /\ call.rule.consequent[FirstUnresolved(call.rule, vars)].var \notin DOMAIN vars)
          => ~ret.ok /\ ret.err.kind = "NotFound" /\ ret.err.space = "Var"
    /\ (Defuzzified /\ \E key \in DOMAIN call.agg : key \notin DOMAIN vars)
          => ~ret.ok /\ ret.err.kind = "NotFound" /\ ret.err.space = "Var"

\* C18: a successful antecedent evaluation returns a degree in [0, 1].
C18_UnitInterval ==
    AntecedentDone /\ ret.ok => FLe(Zero, ret.val) /\ FLe(ret.val, One)

\* NOT (cold OR hot) was evaluated at temp = 2.5, where hot is 0.5.
C18_Witness ==
    /\ AntecedentDone
    /\ call.ant = Not(ColdOrHot)
    /\ call.input = InputOf(Q(5, 2))
    /\ ret = Ok(Half)

SampleDone == pc = "done" /\ call.op = "sample"

C21_SamplerRejects ==
    /\ (pc = "done" /\ call.op = "new")
          => /\ ~ret.ok <=> call.n < 2
             /\ ~ret.ok => ret.err = OutOfBounds
             /\ ret.ok => ret.val = call.n
    /\ (SampleDone /\ (\/ FGe(call.min, call.max)
                       \/ ~is_finite(call.min)
                       \/ ~is_finite(call.max)))
          => ~ret.ok

\* new(1) has been rejected with OutOfBounds.
C21_Witness ==
    /\ pc = "done"
    /\ call.op = "new"
    /\ call.n = 1
    /\ ~ret.ok
    /\ ret.err = OutOfBounds

ShapeBuilt(kind) == pc = "built" /\ call.op = kind
ShapeEvaluated(kind) == pc = "done" /\ call.op = kind

\* C22: for every Triangular(left, center, right) its constructor has built
\* and every number x, eval(x) is 0 when x <= left or x >= right, 1 at
\* x = center, (x - left)/(center - left) for left < x < center and
\* (right - x)/(right - center) for center < x < right, and lies in [0, 1].
C22_TriangularEval ==
    (ShapeEvaluated("Triangular") /\ ~is_nan(call.x))
       => LET l == vars.self.left
              c == vars.self.center
              r == vars.self.right
              x == call.x
          IN  /\ (FLe(x, l) \/ FGe(x, r)) => ret = Zero
              /\ x = c => ret = One
              /\ (FLt(l, x) /\ FLt(x, c))
                    => ret = FDiv(FSub(x, l), FSub(c, l))
              /\ (FLt(c, x) /\ FLt(x, r))
                    => ret = FDiv(FSub(r, x), FSub(r, c))
              /\ FLe(Zero, ret) /\ FLe(ret, One)

\* C23: for every Trapezoidal(left_leg, left_base, right_base, right_leg) its
\* constructor has built and every number x, eval(x) is 0 when x <= left_leg
\* or x >= right_leg, 1 when left_base <= x <= right_base,
\* (x - left_leg)/(left_base - left_leg) on the rising leg and
\* (right_leg - x)/(right_leg - right_base) on the falling leg, and lies in
\* [0, 1].
C23_TrapezoidalEval ==
    (ShapeEvaluated("Trapezoidal") /\ ~is_nan(call.x))
       => LET ll == vars.self.left_leg
              lb == vars.self.left_base
              rb == vars.self.right_base
              rl == vars.self.right_leg
              x == call.x
          IN  /\ (FLe(x, ll) \/ FGe(x, rl)) => ret = Zero
              /\ (FLe(lb, x) /\ FLe(x, rb)) => ret = One
              /\ (FLt(ll, x) /\ FLt(x, lb))
                    => ret = FDiv(FSub(x, ll), FSub(lb, ll))
              /\ (FLt(rb, x) /\ FLt(x, rl))
                    => ret = FDiv(FSub(rl, x), FSub(rl, rb))
              /\ FLe(Zero, ret) /\ FLe(ret, One)

StrictlyIncreasing(vals) ==
    \A i \in 1..(Len(vals) - 1) : FLt(vals[i], vals[i + 1])

\* C24: Triangular::new and Trapezoidal::new succeed exactly when their
\* parameters are strictly increasing, and otherwise return the error of an
\* invalid shape (BadArity in this code).
C24_ConstructorsOrdered ==
    (ShapeBuilt("Triangular") \/ ShapeBuilt("Trapezoidal"))
       => /\ ret.ok <=> StrictlyIncreasing(call.args)
          /\ ~ret.ok => ret.err = BadArity

\* C25: the Gaussian constructor, handed (mean, sd) in that order, succeeds
\* exactly when sd > 0 and otherwise returns the error of an invalid shape
\* (OutOfBounds in this code); the shape built evaluates to exactly 1 at
\* x = mean, and to the same degree at mean - d and at mean + d.
C25_GaussianMeanSd ==
    LET mean == call.args[1]
        sd == call.args[2]
    IN  /\ ShapeBuilt("Gaussian")
              => /\ ret.ok <=> FGt(sd, Zero)
                 /\ ~ret.ok => ret.err = OutOfBounds
        /\ (ShapeEvaluated("Gaussian") /\ is_finite(mean) /\ is_finite(call.x))
              => /\ call.x = mean => ret = exp(Zero)
                 /\ ret = Gaussian_eval(vars.self,
                                        FAdd(mean, FSub(mean, call.x)))

\* C26: a term is resolved by the key it was registered under, never by
\* its own label: with a term of another label registered under key, eval(key,
\* x) returns that term's membership at an x of the domain, and eval(label, x)
\* fails with the unknown-term error when no term is registered under label.
C26_LookupByKey ==
    EvalDone =>
       LET terms == VariableOf(vars).terms
           inside == ~(\/ FLt(call.x, VariableOf(vars).min)
                       \/ FLt(VariableOf(vars).max, call.x))
       IN  /\ (/\ call.name \in DOMAIN terms
               /\ terms[call.name].name # call.name
               /\ inside)
                 => /\ ret.ok
                    /\ ret.val = MembershipFn_eval(terms[call.name].mf, call.x)
           /\ (/\ call.name \notin DOMAIN terms
               /\ \E k \in DOMAIN terms : terms[k].name = call.name)
                 => ~ret.ok /\ ret.err = TypeMismatch

\* A term labelled "x" is registered under "missing" only; eval("x", 0.3)
\* has failed with the unknown-term error.
C26_Witness ==
    /\ EvalDone
    /\ DOMAIN VariableOf(vars).terms = {"missing"}
    /\ VariableOf(vars).terms["missing"].name = "x"
    /\ call.name = "x"
    /\ call.x = Q(3, 10)
    /\ ~ret.ok
    /\ ret.err = TypeMismatch

\* C27: RuleSpace.aggregate and RuleSpace.defuzzify leave rules and vars as
\* they were, whether they succeed or fail, and a defuzzify that follows a
\* defuzzify with the same input and sampler returns the same result.
C27_RulesAndVarsKept ==
    [][/\ call'.op \in {"aggregate", "defuzzify"}
             => rules' = rules /\ vars' = vars
       /\ (/\ call.op = "defuzzify"
           /\ call'.op = "defuzzify"
           /\ call'.input = call.input
           /\ call'.n = call.n)
             => ret' = ret]_state

\* A defuzzify over two rules has returned the crisp outputs.
C27_Witness ==
    /\ call.op = "defuzzify"
    /\ ret.ok
    /\ Len(rules) = 2
    /\ DOMAIN ret.val = {"fanpspeed", "pumpspeed"}
    /\ ~is_nan(ret.val["fanpspeed"])

\* C28: after every successful RuleSpace.aggregate, and the aggregate inside
\* a defuzzify, the stored aggregation is the aggregation of the current
\* rules, input and sampler computed from an empty map: it replaces the map
\* of the previous call and is never merged with it.
C28_AggregateReplaces ==
    [][(/\ call'.op \in {"aggregate", "defuzzify"}
        /\ aggregation(rules, call'.input, vars, call'.n).ok)
          => agg_memberships' = aggregation(rules', call'.input, vars', call'.n).val]_state

\* An aggregate with three samples has stored the clipped High term of
\* fanpspeed.
C28_Witness ==
    /\ call.op = "aggregate"
    /\ ret.ok
    /\ call.n = 3
    /\ DOMAIN agg_memberships = {"fanpspeed", "pumpspeed"}
    /\ DOMAIN agg_memberships["fanpspeed"] = 0..2
    /\ agg_memberships["fanpspeed"][2] = Half

\* C29: for every output variable whose aggregated samples are all in
\* [0, 1] and do not sum to zero, the crisp value defuzzification returns lies
\* in the variable's domain: var_min <= result <= var_max.
C29_CrispInDomain ==
    (Defuzzified /\ ret.ok)
       => \A k \in DOMAIN call.agg :
             (/\ \A i \in DOMAIN call.agg[k] :
                    FLe(Zero, call.agg[k][i]) /\ FLe(call.agg[k][i], One)
              /\ Total(call.agg[k]) # Zero)
                => /\ FLe(vars[k].min, ret.val[k])
                   /\ FLe(ret.val[k], vars[k].max)

\* Entry k of the clipped vector of consequent i of the rule implicated.
Clipped(i, k) ==
    FMin(call.alpha,
         Term_eval(vars[call.rule.consequent[i].var]
                      .terms[call.rule.consequent[i].term],
                   sampled[i][k]))

Reversed(s) == [i \in 1..Len(s) |-> s[Len(s) + 1 - i]]

\* C30: for a rule that lists several consequents for one output variable,
\* implicate returns under that variable the pointwise maximum of the clipped
\* vectors of all these consequents, and returns the same map for the
\* consequent list in reverse order.
C30_DuplicateConsequentsMax ==
    (ImplicateDone /\ ret.ok)
       => /\ \A i \in 1..Len(call.rule.consequent), k \in 0..(call.n - 1) :
                LET same == {j \in 1..Len(call.rule.consequent) :
                                call.rule.consequent[j].var = call.rule.consequent[i].var}
                    got == ret.val[call.rule.consequent[i].var][k]
                IN  /\ \A j \in same : FLe(Clipped(j, k), got)
                    /\ \E j \in same : got = Clipped(j, k)
          /\ implicate(Rule(call.rule.antecedent, Reversed(call.rule.consequent)),
                       call.alpha, vars, call.n) = ret

====
